---- MODULE Spec2Model ----
(***************************************************************************)
(* The Polaroid Christmas tree.                                            *)
(*                                                                         *)
(* Photo gallery: App (photo list, clear, upload), PhotoGallery (focused   *)
(* identifier) and PhotoFrame (click, double-click, deferred blur timer,   *)
(* per-frame animation step).  Tree scene: Foliage, Star with its swarm,   *)
(* Ornaments and a frame's resting pose, driven by treeState.  Placement:  *)
(* the functions of utils.ts and the ornaments' targets.  App's long-press *)
(* gesture and the canvas Recorder.  Each part has a specification of its  *)
(* own over the one list of variables.                                     *)
(*                                                                         *)
(* Time is counted in milliseconds.  Every scalar the frame loop animates  *)
(* (progress, flipProgress, visibilityScale) is a fixed-point number in    *)
(* thousandths: 1000 stands for 1.0.  A frame delta of d milliseconds is   *)
(* the source's delta = d / 1000 seconds, so "delta * 3" is 3 * d          *)
(* thousandths.                                                            *)
(*                                                                         *)
(* Frame i (1-based) is the PhotoFrame with key and identifier             *)
(* `photo-${i-1}`; it is mounted exactly when i <= Len(photos).  The       *)
(* focused identifier 0 stands for null.                                   *)
(***************************************************************************)
EXTENDS Integers, Sequences, FiniteSets, TLC

VARIABLES
    photos,           \* App: photos state, the sequence of the photos' object URLs
    isClearing,       \* App: isClearing state
    isProcessing,     \* App: isProcessing state (the overlay takes the pointer)
    upload,           \* the upload handler suspended at its await, or NoUpload
    clearTimers,      \* pending 800 ms timeouts of clearPhotos, with the list each captured
    revoked,          \* object URLs passed to URL.revokeObjectURL
    nextUrl,          \* number of object URLs created so far
    focusedId,        \* PhotoGallery: focusedId state (0 = null)
    isFlipped,        \* PhotoFrame: isFlipped state, per frame
    clickTimeoutRef,  \* PhotoFrame: clickTimeoutRef.current, per frame (0 = null)
    timers,           \* the browser's pending timeouts armed by handleClick
    progress,         \* PhotoFrame: progress.current, per frame
    flipProgress,     \* PhotoFrame: flipProgress.current, per frame
    visibilityScale,  \* PhotoFrame: visibilityScale.current, per frame
    flipYaw,          \* PhotoFrame: the yaw of flipQ composed onto activeRot in the last frame
    lastCancel,       \* history: the clearTimeout an unmount made in the last step, if any
    treeState,        \* App: treeState state ("CHAOS" or "FORMED")
    foliageProgress,  \* Foliage: progressRef.current
    starProgress,     \* Star: progress.current
    starOpacity,      \* Star: material.opacity
    swarmOpacityProp, \* ChaoticSwarm: the opacity prop of its last render
    swarmOpacity,     \* ChaoticSwarm: its points material's opacity
    swarmVisible,     \* ChaoticSwarm: pointsRef.current.visible
    currentRestingPos, \* PhotoFrame: currentRestingPos.current.x of one mounted frame
    currentRestingRot, \* PhotoFrame: the yaw of currentRestingRot.current of that frame
    currentPositions, \* Ornaments: currentPositions[i].x, per instance
    twinRestingPos,   \* currentRestingPos of that frame in the run without pointer input
    twinRestingRot,   \* currentRestingRot of that frame in the run without pointer input
    spiralArgs,       \* the (total, height, radiusBase) a list of photos is placed with
    placed,           \* getSpiralPoint(index, ...) for index = 0, 1, ... so far
    treePoint,        \* the last getTreePoint call: its arguments, random draws and result
    ornament,         \* Ornaments: the last instance generated, its cone point and its target
    pressTimer,       \* App: pressTimer.current (0 = null)
    startPos,         \* App: startPos.current ("null" or "set")
    hasMoved,         \* App: hasMoved.current
    pressTimeouts,    \* the browser's pending timeouts armed by handleStart; with each,
                      \* history: whether a press-end event came after it was armed
    nextPressId,      \* number of timeouts handleStart has armed so far
    isRecording,      \* App: isRecording state
    effectDue,        \* Recorder: a render changed isRecording and the effect has not run yet
    hasCleanup,       \* Recorder: the last run of the effect returned its cleanup function
    mediaRecorderRef, \* Recorder: mediaRecorderRef.current (0 = null, else a recorder's id)
    recorders,        \* the MediaRecorder objects constructed so far, with their state
    lastOutcome       \* history: how the last run of the effect ended

vars == <<photos, isClearing, isProcessing, upload, clearTimers, revoked, nextUrl,
          focusedId, isFlipped, clickTimeoutRef, timers, progress, flipProgress,
          visibilityScale, flipYaw, lastCancel,
          treeState, foliageProgress, starProgress, starOpacity, swarmOpacityProp,
          swarmOpacity, swarmVisible, currentRestingPos, currentRestingRot,
          currentPositions, twinRestingPos, twinRestingRot,
          spiralArgs, placed, treePoint, ornament,
          pressTimer, startPos, hasMoved, pressTimeouts, nextPressId,
          isRecording, effectDue, hasCleanup, mediaRecorderRef, recorders, lastOutcome>>

\* The photo gallery (App's photo list, PhotoGallery, PhotoFrame's interaction)
galleryVars == <<photos, isClearing, isProcessing, upload, clearTimers, revoked, nextUrl,
                 focusedId, isFlipped, clickTimeoutRef, timers, progress, flipProgress,
                 visibilityScale, flipYaw, lastCancel>>

\* The tree scene (treeState and the scalars damped toward it)
sceneVars == <<treeState, foliageProgress, starProgress, starOpacity, swarmOpacityProp,
               swarmOpacity, swarmVisible, currentRestingPos, currentRestingRot,
               currentPositions>>

\* The same frame's resting pose in a second run of the program: the same
\* frames and treeState toggles, and no click on any frame.
twinVars == <<twinRestingPos, twinRestingRot>>

\* Calls of the placement functions of utils.ts
placementVars == <<spiralArgs, placed, treePoint, ornament>>

\* What the gallery's handlers do not touch.  The gallery is driven on its own
\* frames here: the scene's scalars depend on treeState and delta alone and the
\* gallery's on neither of them, so the two are stepped in specifications of
\* their own (Spec and SceneSpec).
\* The long-press gesture on App's root element
pressVars == <<pressTimer, startPos, hasMoved, pressTimeouts, nextPressId>>

\* Canvas recording: App's isRecording and the Recorder component
recorderVars == <<isRecording, effectDue, hasCleanup, mediaRecorderRef, recorders,
                  lastOutcome>>

otherVars == <<sceneVars, placementVars, twinVars, pressVars, recorderVars>>

----------------------------------------------------------------------------
(* Bounds of the model *)

\* App.tsx sets MAX_PHOTOS = 30; the model runs the same guard with a small cap.
MAX_PHOTOS == 2

\* Object URLs created in one behaviour.
MaxUrls == 2

\* clearPhotos timeouts pending at once.
MaxClears == 2

\* Frame deltas (ms) the render loop is driven with.
Deltas == {500}

\* Longest list of photos placed on the spiral.
MaxTotal == 4

\* Press-start events (handleStart calls) in one behaviour.
MaxPresses == 3

\* MediaRecorder objects constructed in one behaviour.
MaxRecorders == 2

----------------------------------------------------------------------------
(* Program constants *)

CLICK_DELAY == 250

CLEAR_DELAY == 800

PRESS_DELAY == 1800

Frames == 1..MAX_PHOTOS

NoCancel == [by |-> "none", frame |-> 0]

NoUpload == [active |-> FALSE, newPhotos |-> <<>>]

----------------------------------------------------------------------------
(* Helpers *)

Min(a, b) == IF a < b THEN a ELSE b

Max(a, b) == IF a > b THEN a ELSE b

Abs(x) == IF x < 0 THEN -x ELSE x

\* a / b rounded to the nearest integer (b > 0), as a float product rounds.
RoundDiv(a, b) == (2 * a + b) \div (2 * b)

\* THREE.MathUtils.lerp(x, y, t) = (1 - t) * x + t * y, unclamped; t in thousandths.
lerp(x, y, t) == RoundDiv((1000 - t) * x + t * y, 1000)

\* The PhotoFrame with index i is rendered by PhotoGallery.
Mounted(i) == i <= Len(photos)

Urls(list) == {list[k] : k \in 1..Len(list)}

TimerIds == {t.id : t \in timers}

\* window.setTimeout returns a handle no pending timeout has.  Which number it
\* is does not matter; the model takes the first free one of i, i + MAX_PHOTOS,
\* i + 2 * MAX_PHOTOS, ... for a timeout armed by frame i.
FreshTimerId(i) ==
    LET k == CHOOSE k \in 0..Cardinality(timers) :
                 /\ (i + k * MAX_PHOTOS) \notin TimerIds
                 /\ \A j \in 0..(k - 1) : (i + j * MAX_PHOTOS) \in TimerIds
    IN  i + k * MAX_PHOTOS

\* window.clearTimeout(id)
clearTimeout(ts, id) == {t \in ts : t.id # id}

\* A timeout whose delay has elapsed and whose callback has not run yet.
Due(t) == t.elapsed >= t.delay

RemoveAt(s, k) == [j \in 1..(Len(s) - 1) |-> IF j < k THEN s[j] ELSE s[j + 1]]

----------------------------------------------------------------------------
(* Initial state: App and PhotoGallery as constructed, no frame mounted *)

InitGallery ==
    /\ photos = <<>>
    /\ isClearing = FALSE
    /\ isProcessing = FALSE
    /\ upload = NoUpload
    /\ clearTimers = <<>>
    /\ revoked = {}
    /\ nextUrl = 0
    /\ focusedId = 0
    /\ isFlipped = [i \in Frames |-> FALSE]
    /\ clickTimeoutRef = [i \in Frames |-> 0]
    /\ timers = {}
    /\ progress = [i \in Frames |-> 0]
    /\ flipProgress = [i \in Frames |-> 0]
    /\ visibilityScale = [i \in Frames |-> 1000]
    /\ flipYaw = [i \in Frames |-> 0]
    /\ lastCancel = NoCancel

\* The x coordinate of the frame's chaos point (getRandomSpherePoint(18)) and
\* of its spiral position (getSpiralPoint(0, 1, 12, 5.5): r = 5.5 + 1.5).
chaosPos == -9000

position == 7000

\* The yaw (thousandths of a radian) of the frame's two resting orientations:
\* the Euler angles taken from the chaos point, and the spiral position's
\* lookAt toward the axis turned by PI (at the angle-0 position the frame's
\* front faces +x, a yaw of PI / 2).
chaosRot == 1200

formedRot == 1571

\* Ornaments: two instances of one batch with the x coordinate of their chaos
\* point (getRandomSpherePoint(20)) and of their tree position, and their
\* speed (1 + Math.random() * 2, in [1, 3)) in thousandths.
Instances == 1..2

chaosData == <<-12000, 8000>>

targetData == <<3300, -2000>>

speeds == <<1000, 2500>>

\* The scene as constructed: CHAOS, every scalar at its useRef initial value,
\* Star's material at opacity 0, the swarm's material at three.js's defaults.
InitScene ==
    /\ treeState = "CHAOS"
    /\ foliageProgress = 0
    /\ starProgress = 0
    /\ starOpacity = 0
    /\ swarmOpacityProp = 0
    /\ swarmOpacity = 1000
    /\ swarmVisible = TRUE
    /\ currentRestingPos = chaosPos
    /\ currentRestingRot = chaosRot
    /\ currentPositions = chaosData

\* The second run starts as the first does.
InitTwin ==
    /\ twinRestingPos = chaosPos
    /\ twinRestingRot = chaosRot

NoArgs == [total |-> 0, height |-> 0, radiusBase |-> 0]

NoPoint == [called |-> FALSE]

NoOrnament == [generated |-> FALSE]

\* No placement function called.
InitPlacement ==
    /\ spiralArgs = NoArgs
    /\ placed = <<>>
    /\ treePoint = NoPoint
    /\ ornament = NoOrnament

\* No press yet: the refs at their useRef initial values.
InitPress ==
    /\ pressTimer = 0
    /\ startPos = "null"
    /\ hasMoved = FALSE
    /\ pressTimeouts = {}
    /\ nextPressId = 0

\* Recorder mounted with isRecording false: its effect has run once, through
\* the else branch with no recorder, and returned the cleanup.
InitRecorder ==
    /\ isRecording = FALSE
    /\ effectDue = FALSE
    /\ hasCleanup = TRUE
    /\ mediaRecorderRef = 0
    /\ recorders = {}
    /\ lastOutcome = "mounted"

Init ==
    InitGallery /\ InitScene /\ InitPlacement /\ InitTwin /\ InitPress /\ InitRecorder

----------------------------------------------------------------------------
(* PhotoGallery: the two callbacks it hands to every frame *)

\* A setter that keeps the frame already focused, if there is one.
onFocus_keepsFocused(id) == IF focusedId # 0 THEN focusedId ELSE id

\* onFocus={setFocusedId}: the next focused identifier
onFocus(id) == id

\* onBlur={() => setFocusedId(null)}: the next focused identifier
onBlur == 0

frameVars == <<isFlipped, clickTimeoutRef, timers, progress, flipProgress, visibilityScale,
               flipYaw>>

appVars == <<photos, isClearing, isProcessing, upload, clearTimers, revoked, nextUrl>>

animVars == <<progress, flipProgress, visibilityScale, flipYaw>>

----------------------------------------------------------------------------
(* PhotoFrame: pointer handlers *)

\* isFocused={focusedId === data.id}
isFocused(i) == focusedId = i

\* The focus test inverted: a click requests focus for the focused frame only.
clickFocuses_whenFocused(i) == ~isClearing /\ isFocused(i)

\* The early return on isClearing left out.
clickFocuses_ignoresClearing(i) == ~isFocused(i)

\* handleClick: if (isClearing) return; if (!isFocused) ...
clickFocuses(i) == ~isClearing /\ ~isFocused(i)

\* The test of the ref left out: every click on the focused frame arms a timeout.
clickArms_whilePending(i) == ~isClearing /\ isFocused(i)

\* handleClick: ... else if (clickTimeoutRef.current === null) ...
clickArms(i) == ~isClearing /\ isFocused(i) /\ clickTimeoutRef[i] = 0

\* A timeout armed with no delay.
newClickTimeout_noDelay(i) ==
    [id |-> FreshTimerId(i), owner |-> i, delay |-> 0, elapsed |-> 0]

\* window.setTimeout(() => { onBlur(); clickTimeoutRef.current = null; }, 250)
newClickTimeout(i) ==
    [id |-> FreshTimerId(i), owner |-> i, delay |-> CLICK_DELAY, elapsed |-> 0]

\* handleClick of frame i.  The processing overlay covers the canvas while
\* isProcessing, so the click reaches a frame only when it is not set.
handleClick(i) ==
    /\ Mounted(i)
    /\ ~isProcessing
    /\ IF clickFocuses(i)
         THEN /\ focusedId' = onFocus(i)
              /\ UNCHANGED <<clickTimeoutRef, timers>>
         ELSE IF clickArms(i)
                THEN /\ timers' = timers \cup {newClickTimeout(i)}
                     /\ clickTimeoutRef' = [clickTimeoutRef EXCEPT ![i] = newClickTimeout(i).id]
                     /\ UNCHANGED focusedId
                ELSE UNCHANGED <<focusedId, clickTimeoutRef, timers>>
    /\ lastCancel' = NoCancel
    /\ UNCHANGED <<isFlipped, animVars, appVars>>
    /\ UNCHANGED otherVars

\* A double-click that nulls the ref without clearTimeout.
doubleClickTimeouts_noClear(i) == timers

\* A double-click that flips whether the frame is focused or not.
doubleClickFlips_always(i) == TRUE

\* handleDoubleClick: the browser's timeouts after
\* if (clickTimeoutRef.current !== null) window.clearTimeout(clickTimeoutRef.current)
doubleClickTimeouts(i) ==
    IF clickTimeoutRef[i] # 0 THEN clearTimeout(timers, clickTimeoutRef[i]) ELSE timers

\* handleDoubleClick: if (isFocused) setIsFlipped(prev => !prev)
doubleClickFlips(i) == isFocused(i)

\* handleDoubleClick of frame i
handleDoubleClick(i) ==
    /\ Mounted(i)
    /\ ~isProcessing
    /\ timers' = doubleClickTimeouts(i)
    /\ clickTimeoutRef' = [clickTimeoutRef EXCEPT ![i] = 0]
    /\ isFlipped' = IF doubleClickFlips(i)
                      THEN [isFlipped EXCEPT ![i] = ~isFlipped[i]]
                      ELSE isFlipped
    /\ lastCancel' = NoCancel
    /\ UNCHANGED <<focusedId, animVars, appVars>>
    /\ UNCHANGED otherVars

\* The focus test inverted: the frames that are not focused call onBlur.
missBlurs_whenNotFocused(i) == Mounted(i) /\ ~isFocused(i)

\* onPointerMissed={(e) => isFocused && onBlur()} of frame i
missBlurs(i) == Mounted(i) /\ isFocused(i)

\* A click that hits no object: every mounted frame's onPointerMissed runs.
onPointerMissed ==
    /\ Len(photos) > 0
    /\ ~isProcessing
    /\ focusedId' = IF \E i \in Frames : missBlurs(i) THEN onBlur ELSE focusedId
    /\ lastCancel' = NoCancel
    /\ UNCHANGED <<frameVars, appVars>>
    /\ UNCHANGED otherVars

\* The callback handleClick passed to setTimeout, run by the browser once the
\* delay of timeout t has elapsed: onBlur(); clickTimeoutRef.current = null.
\* The ref it writes is the one of the frame instance that armed it.
clickTimeoutFires(t) ==
    /\ t \in timers
    /\ Due(t)
    /\ focusedId' = onBlur
    /\ clickTimeoutRef' = [clickTimeoutRef EXCEPT
                              ![t.owner] = IF @ = t.id THEN 0 ELSE @]
    /\ timers' = timers \ {t}
    /\ lastCancel' = NoCancel
    /\ UNCHANGED <<isFlipped, animVars, appVars>>
    /\ UNCHANGED otherVars

----------------------------------------------------------------------------
(* PhotoGallery re-render after the photo list changed to length n: frames   *)
(* beyond n unmount (their cleanup effect runs), frames that appear mount    *)
(* with fresh state, frames that stay keep their key `photo-${index}` and    *)
(* their state.                                                              *)

\* id: `photo-${index}` of the photo at place k of the list
photoId(k) == k

\* PhotoGallery.photoObjects: the entity of every listed photo
photoObjects == [k \in 1..Len(photos) |-> [id |-> photoId(k), url |-> photos[k]]]

Unmounting(n) == {i \in Frames : Mounted(i) /\ i > n}

\* A frame without the cleanup effect.
cleanupTimeouts_none(n) == timers

\* useEffect cleanup of the unmounting frames: clearTimeout of a non-null ref
cleanupTimeouts(n) ==
    {t \in timers : ~ \E i \in Unmounting(n) :
                        clickTimeoutRef[i] # 0 /\ clickTimeoutRef[i] = t.id}

renderFrames(n) ==
    /\ timers' = cleanupTimeouts(n)
    /\ lastCancel' = IF \E i \in Unmounting(n) : clickTimeoutRef[i] # 0
                       THEN [by |-> "unmount",
                             frame |-> CHOOSE i \in Unmounting(n) : clickTimeoutRef[i] # 0]
                       ELSE NoCancel
    /\ clickTimeoutRef' = [i \in Frames |-> IF i > n THEN 0 ELSE clickTimeoutRef[i]]
    /\ isFlipped' = [i \in Frames |-> IF i > n THEN FALSE ELSE isFlipped[i]]
    /\ progress' = [i \in Frames |-> IF i > n THEN 0 ELSE progress[i]]
    /\ flipProgress' = [i \in Frames |-> IF i > n THEN 0 ELSE flipProgress[i]]
    /\ visibilityScale' = [i \in Frames |-> IF i > n THEN 1000 ELSE visibilityScale[i]]
    /\ flipYaw' = [i \in Frames |-> IF i > n THEN 0 ELSE flipYaw[i]]

----------------------------------------------------------------------------
(* PhotoFrame: useFrame, one rendered frame with delta = d ms.  Of the       *)
(* active pose the flip yaw is kept (flipYaw); the camera-relative position  *)
(* and scale and the final blend read the scalars below and write only the   *)
(* group's transform.  The resting pose is stepped in SceneTick.             *)

\* step 0, clearing animation
nextVisibility(i, d) ==
    IF isClearing THEN lerp(visibilityScale[i], 0, d * 3) ELSE 1000

\* The clearing step without its onBlur call.
blursOnTick_never(i) == FALSE

\* step 0: if (isClearing && isFocused) onBlur()
blursOnTick(i) == isClearing /\ focusedId = i

\* step 3, flip progress
nextFlipProgress(i, d) ==
    lerp(flipProgress[i], IF isFlipped[i] THEN 1000 ELSE 0, d * 2)

\* Math.PI, in thousandths
PI == 3142

\* step 3: if (flipProgress.current > 0.001) flipQ.setFromAxisAngle(yAxis,
\* flipProgress.current * Math.PI), composed onto activeRot; no yaw otherwise.
\* The angle is in thousandths of a radian.
flipAngle(fp) == IF fp > 1 THEN RoundDiv(fp * PI, 1000) ELSE 0

\* The yaw taken from flipProgress as the frame found it.
activeFlipYaw_before(i, d) == flipAngle(flipProgress[i])

\* step 3: the yaw composed onto activeRot, read from flipProgress.current after
\* the lerp of the line before it
activeFlipYaw(i, d) == flipAngle(nextFlipProgress(i, d))

\* step 4, focus progress: zoomSpeed = 1.5
nextProgress(i, d) ==
    IF focusedId = i
      THEN Min(1000, progress[i] + RoundDiv(d * 3, 2))
      ELSE Max(0, progress[i] - RoundDiv(d * 3, 2))

\* Step 4 without the forced un-flip.
nextIsFlipped_keeps(i, d) == isFlipped[i]

\* step 4: if (progress.current === 0 && isFlipped) setIsFlipped(false)
nextIsFlipped(i, d) ==
    IF focusedId # i /\ nextProgress(i, d) = 0 /\ isFlipped[i]
      THEN FALSE
      ELSE isFlipped[i]

\* d more ms have passed for a pending timeout (counted up to its delay).
elapse(t, d) == [t EXCEPT !.elapsed = Min(t.delay, @ + d)]

\* One animation frame: every mounted frame's useFrame callback runs with the
\* props of the last render, then React applies the state updates they made.
\* The browser runs the callback of a due timeout before it renders a later
\* frame, so no frame is rendered while one is due.
PhotoFrameTick(d) ==
    /\ \A t \in timers : ~Due(t)
    /\ \A k \in 1..Len(clearTimers) : ~Due(clearTimers[k])
    /\ visibilityScale' = [i \in Frames |->
           IF Mounted(i) THEN nextVisibility(i, d) ELSE visibilityScale[i]]
    /\ flipProgress' = [i \in Frames |->
           IF Mounted(i) THEN nextFlipProgress(i, d) ELSE flipProgress[i]]
    /\ flipYaw' = [i \in Frames |->
           IF Mounted(i) THEN activeFlipYaw(i, d) ELSE flipYaw[i]]
    /\ progress' = [i \in Frames |->
           IF Mounted(i) THEN nextProgress(i, d) ELSE progress[i]]
    /\ isFlipped' = [i \in Frames |->
           IF Mounted(i) THEN nextIsFlipped(i, d) ELSE isFlipped[i]]
    /\ focusedId' = IF \E i \in Frames : Mounted(i) /\ blursOnTick(i)
                      THEN onBlur
                      ELSE focusedId
    /\ timers' = {elapse(t, d) : t \in timers}
    /\ clearTimers' = [k \in 1..Len(clearTimers) |-> elapse(clearTimers[k], d)]
    /\ lastCancel' = NoCancel
    /\ UNCHANGED <<clickTimeoutRef, photos, isClearing, isProcessing, upload,
                   revoked, nextUrl>>

\* A frame of the gallery on its own (the resting pose is stepped in SceneTick
\* and FrameTick).
Tick(d) == PhotoFrameTick(d) /\ UNCHANGED otherVars

----------------------------------------------------------------------------
(* App: upload and clear *)

\* A loop that puts the processed image in front of the list.
pushFiles_prepend(list, files, url) ==
    IF files = 0 \/ Len(list) >= MAX_PHOTOS THEN list ELSE <<url + 1>> \o list

RECURSIVE pushFiles(_, _, _)
\* The loop of handlePhotoUpload / handleFreeRatioUpload over the picked files:
\* stops at MAX_PHOTOS, otherwise pushes the processed image, whose object URL
\* is new.  (The two handlers differ only in the height they store with the
\* URL, which the frame's geometry alone reads.)
pushFiles(list, files, url) ==
    IF files = 0 \/ Len(list) >= MAX_PHOTOS
      THEN list
      ELSE pushFiles(Append(list, url + 1), files - 1, url + 1)

\* Numbers of files picked in the file dialog.
FileCounts == 1..(MAX_PHOTOS + 1)

\* handlePhotoUpload / handleFreeRatioUpload up to the first await: the input
\* is enabled while photos.length < MAX_PHOTOS, and the handler copies the
\* photos of the render it was created in.
uploadStart ==
    /\ ~isProcessing
    /\ ~upload.active
    /\ Len(photos) < MAX_PHOTOS
    /\ nextUrl < MaxUrls
    /\ isProcessing' = TRUE
    /\ upload' = [active |-> TRUE, newPhotos |-> photos]
    /\ lastCancel' = NoCancel
    /\ UNCHANGED <<photos, isClearing, clearTimers, revoked, nextUrl, focusedId, frameVars>>
    /\ UNCHANGED otherVars

\* A setter that adds the handler's list to the list of the moment.
setPhotos_appends(newPhotos) == photos \o newPhotos

\* setPhotos(newPhotos): the next photo list is the handler's list
setPhotos(newPhotos) == newPhotos

\* The rest of the upload handler over the picked files, once their images are
\* processed: the loop, setPhotos(newPhotos), setIsProcessing(false).
uploadFinish(files) ==
    /\ upload.active
    /\ LET newPhotos == pushFiles(upload.newPhotos, files, nextUrl)
       IN  /\ nextUrl + (Len(newPhotos) - Len(upload.newPhotos)) <= MaxUrls
           /\ photos' = setPhotos(newPhotos)
           /\ nextUrl' = nextUrl + (Len(newPhotos) - Len(upload.newPhotos))
           /\ renderFrames(Len(setPhotos(newPhotos)))
    /\ isProcessing' = FALSE
    /\ upload' = NoUpload
    /\ UNCHANGED <<isClearing, clearTimers, revoked, focusedId>>
    /\ UNCHANGED otherVars

\* clearPhotos: the trash button is rendered while photos.length > 0.
clearPhotos ==
    /\ ~isProcessing
    /\ Len(photos) > 0
    /\ Len(clearTimers) < MaxClears
    /\ isClearing' = TRUE
    /\ clearTimers' = Append(clearTimers, [list |-> photos, delay |-> CLEAR_DELAY, elapsed |-> 0])
    /\ lastCancel' = NoCancel
    /\ UNCHANGED <<photos, isProcessing, upload, revoked, nextUrl, focusedId, frameVars>>
    /\ UNCHANGED otherVars

\* The callback clearPhotos passed to setTimeout, over the list it captured.
clearTimeoutFires(k) ==
    /\ k \in 1..Len(clearTimers)
    /\ Due(clearTimers[k])
    /\ revoked' = revoked \cup Urls(clearTimers[k].list)
    /\ photos' = <<>>
    /\ isClearing' = FALSE
    /\ clearTimers' = RemoveAt(clearTimers, k)
    /\ renderFrames(0)
    /\ UNCHANGED <<isProcessing, upload, nextUrl, focusedId>>
    /\ UNCHANGED otherVars

----------------------------------------------------------------------------

Next ==
    \/ \E i \in Frames : handleClick(i)
    \/ \E i \in Frames : handleDoubleClick(i)
    \/ onPointerMissed
    \/ \E t \in timers : clickTimeoutFires(t)
    \/ \E d \in Deltas : Tick(d)
    \/ uploadStart
    \/ \E files \in FileCounts : uploadFinish(files)
    \/ clearPhotos
    \/ \E k \in 1..Len(clearTimers) : clearTimeoutFires(k)

Spec == Init /\ [][Next]_vars

----------------------------------------------------------------------------
(* PhotoGallery as a coordinator on its own: the program together with a     *)
(* caller that invokes the two callbacks PhotoGallery hands out, onFocus with *)
(* any identifier and onBlur, as a holder of a stale reference would.  The    *)
(* frames themselves call onFocus with their own identifier only.            *)

\* `photo-${index}` for the indices of a full list, and one index beyond it.
Identifiers == 1..(MAX_PHOTOS + 1)

\* onFocus(id) called from outside a frame's handler
requestFocus(id) ==
    /\ focusedId' = onFocus(id)
    /\ lastCancel' = NoCancel
    /\ UNCHANGED <<frameVars, appVars>>
    /\ UNCHANGED otherVars

\* onBlur() called from outside a frame's handler
requestBlur ==
    /\ focusedId' = onBlur
    /\ lastCancel' = NoCancel
    /\ UNCHANGED <<frameVars, appVars>>
    /\ UNCHANGED otherVars

CoordinatorNext ==
    \/ \E i \in Frames : handleClick(i)
    \/ \E i \in Frames : handleDoubleClick(i)
    \/ onPointerMissed
    \/ \E t \in timers : clickTimeoutFires(t)
    \/ \E d \in Deltas : Tick(d)
    \/ uploadStart
    \/ \E files \in FileCounts : uploadFinish(files)
    \/ clearPhotos
    \/ \E k \in 1..Len(clearTimers) : clearTimeoutFires(k)
    \/ \E id \in Identifiers : requestFocus(id)
    \/ requestBlur

CoordinatorSpec == Init /\ [][CoordinatorNext]_vars

----------------------------------------------------------------------------
(* The tree scene: Foliage, Star with its ChaoticSwarm, and the resting       *)
(* position of a photo frame, all driven by treeState and the frame delta.    *)

\* const targetVal = treeState === TreeState.FORMED ? 1 : 0
targetVal == IF treeState = "FORMED" THEN 1000 ELSE 0

\* PhotoFrame useFrame step 1: destRestingPos
destRestingPos == IF treeState = "FORMED" THEN position ELSE chaosPos

\* delta * 2.5 (Foliage's rate, PhotoFrame's moveSpeed), in thousandths
rate25(d) == RoundDiv(d * 5, 2)

\* Foliage useFrame
nextFoliageProgress(d) == lerp(foliageProgress, targetVal, rate25(d))

\* The frame of the list whose resting pose the model follows.
restingFrame == 1

\* A resting position that stands still while its frame is focused.
nextRestingPos_unlessFocused(d) ==
    IF focusedId = restingFrame
      THEN currentRestingPos
      ELSE lerp(currentRestingPos, destRestingPos, rate25(d))

\* PhotoFrame useFrame step 2: currentRestingPos.current.lerp(destRestingPos, delta * moveSpeed)
nextRestingPos(d) == lerp(currentRestingPos, destRestingPos, rate25(d))

\* PhotoFrame useFrame step 1: destRestingRot
destRestingRot == IF treeState = "FORMED" THEN formedRot ELSE chaosRot

\* PhotoFrame useFrame step 2: currentRestingRot.current.slerp(destRestingRot,
\* delta * moveSpeed); between two yaws less than PI apart the slerp is the
\* lerp of the angle.
nextRestingRot(d) == lerp(currentRestingRot, destRestingRot, rate25(d))

\* Ornaments useFrame: current.lerp(target, speed * delta) of instance i
nextPosition(i, d) ==
    lerp(currentPositions[i],
         IF treeState = "FORMED" THEN targetData[i] ELSE chaosData[i],
         RoundDiv(speeds[i] * d, 1000))

\* THREE.MathUtils.clamp
clamp(x, lo, hi) == Max(lo, Min(hi, x))

\* A linear progress that is not clamped.
nextStarProgress_unclamped(d) ==
    LET diff == targetVal - starProgress
        step == (IF diff > 0 THEN 1 ELSE -1) * RoundDiv(d * 2, 3)
    IN  IF Abs(diff) > 0 THEN starProgress + step ELSE targetVal

\* Star useFrame step 1: linear progress over 1.5 s, speed = 1 / 1.5.  The
\* threshold 0.0001 lies below a thousandth: a difference exceeds it exactly
\* when it is not 0.
nextStarProgress(d) ==
    LET diff == targetVal - starProgress
        step == (IF diff > 0 THEN 1 ELSE -1) * RoundDiv(d * 2, 3)
    IN  IF Abs(diff) > 0
          THEN clamp(starProgress + step, 0, 1000)
          ELSE targetVal

\* THREE.MathUtils.smoothstep(x, 0, 1) = x * x * (3 - 2 * x), 0 below 0, 1 above 1
smoothstep(x) ==
    IF x <= 0 THEN 0
    ELSE IF x >= 1000 THEN 1000
    ELSE RoundDiv(x * x * (3000 - 2 * x), 1000000)

\* <ChaoticSwarm opacity={material.opacity} />: Star's render reads the
\* material's opacity of that moment and passes it down as a prop.
renderStar == starOpacity

\* One animation frame of the scene with delta = d ms: the useFrame callbacks
\* of Foliage, ChaoticSwarm, Star and the photo frame.
SceneTick(d) ==
    /\ foliageProgress' = nextFoliageProgress(d)
    /\ currentRestingPos' = nextRestingPos(d)
    /\ currentRestingRot' = nextRestingRot(d)
    /\ currentPositions' = [i \in Instances |-> nextPosition(i, d)]
    /\ starProgress' = nextStarProgress(d)
    /\ starOpacity' = smoothstep(nextStarProgress(d))
    /\ swarmOpacity' = swarmOpacityProp
    /\ swarmVisible' = (swarmOpacityProp > 10)
    /\ UNCHANGED <<treeState, swarmOpacityProp>>
    /\ UNCHANGED <<galleryVars, placementVars, twinVars, pressVars, recorderVars>>

\* The long-press timeout of handleStart: setTreeState(prev => the other
\* state).  App re-renders, and with it Scene and Star.
toggleTreeState ==
    /\ treeState' = IF treeState = "CHAOS" THEN "FORMED" ELSE "CHAOS"
    /\ swarmOpacityProp' = renderStar
    /\ UNCHANGED <<foliageProgress, starProgress, starOpacity, swarmOpacity,
                   swarmVisible, currentRestingPos, currentRestingRot, currentPositions>>
    /\ UNCHANGED <<galleryVars, placementVars, twinVars, pressVars, recorderVars>>

\* A re-render of App or Scene for another state change (a menu, a modal,
\* Scene's isFocusing): Star is not memoised and renders again.
renderScene ==
    /\ swarmOpacityProp' = renderStar
    /\ UNCHANGED <<treeState, foliageProgress, starProgress, starOpacity,
                   swarmOpacity, swarmVisible, currentRestingPos, currentRestingRot,
                   currentPositions>>
    /\ UNCHANGED <<galleryVars, placementVars, twinVars, pressVars, recorderVars>>

SceneNext ==
    \/ \E d \in Deltas : SceneTick(d)
    \/ toggleTreeState
    \/ renderScene

SceneSpec == Init /\ [][SceneNext]_vars

\* The scene under the render loop (requestAnimationFrame), which keeps
\* rendering frames.
FairSceneSpec == SceneSpec /\ WF_vars(\E d \in Deltas : SceneTick(d))

----------------------------------------------------------------------------
(* App: the long-press gesture that toggles treeState.  The handlers are      *)
(* bound to mouse down / move / up / leave and to touch start / move / end of *)
(* the root element; a press-start event can follow another without a         *)
(* press-end between them (a second finger, a second mouse button).           *)

\* handleStart: startPos and hasMoved are reset, and pressTimer.current is
\* overwritten with the handle of a new timeout of 1800 ms.
handleStart ==
    /\ nextPressId < MaxPresses
    /\ startPos' = "set"
    /\ hasMoved' = FALSE
    /\ nextPressId' = nextPressId + 1
    /\ pressTimeouts' = pressTimeouts \cup
           {[id |-> nextPressId + 1, delay |-> PRESS_DELAY, elapsed |-> 0,
             ended |-> FALSE]}
    /\ pressTimer' = nextPressId + 1
    /\ UNCHANGED <<galleryVars, sceneVars, placementVars, twinVars, recorderVars>>

\* handleMove; far: the pointer is more than 10 px from startPos
handleMove(far) ==
    /\ startPos # "null"
    /\ IF far
         THEN /\ hasMoved' = TRUE
              /\ pressTimeouts' = clearTimeout(pressTimeouts, pressTimer)
              /\ pressTimer' = 0
         ELSE UNCHANGED <<hasMoved, pressTimeouts, pressTimer>>
    /\ UNCHANGED <<startPos, nextPressId>>
    /\ UNCHANGED <<galleryVars, sceneVars, placementVars, twinVars, recorderVars>>

\* handleEnd (mouse up, mouse leave, touch end)
handleEnd ==
    /\ startPos' = "null"
    /\ pressTimeouts' = {[t EXCEPT !.ended = TRUE] :
                            t \in clearTimeout(pressTimeouts, pressTimer)}
    /\ pressTimer' = 0
    /\ UNCHANGED <<hasMoved, nextPressId>>
    /\ UNCHANGED <<galleryVars, sceneVars, placementVars, twinVars, recorderVars>>

\* The callback handleStart passed to setTimeout, run once the delay of
\* timeout t has elapsed: if (!hasMoved.current) setTreeState(prev => other),
\* with the re-render of App, Scene and Star that follows.  The callback
\* leaves pressTimer.current as it is.
pressTimeoutFires(t) ==
    /\ t \in pressTimeouts
    /\ Due(t)
    /\ pressTimeouts' = pressTimeouts \ {t}
    /\ IF ~hasMoved
         THEN /\ treeState' = IF treeState = "CHAOS" THEN "FORMED" ELSE "CHAOS"
              /\ swarmOpacityProp' = renderStar
         ELSE UNCHANGED <<treeState, swarmOpacityProp>>
    /\ UNCHANGED <<foliageProgress, starProgress, starOpacity, swarmOpacity,
                   swarmVisible, currentRestingPos, currentRestingRot, currentPositions>>
    /\ UNCHANGED <<pressTimer, startPos, hasMoved, nextPressId>>
    /\ UNCHANGED <<galleryVars, placementVars, twinVars, recorderVars>>

\* d ms pass with no event; a due timeout runs before more time passes.
pressWait(d) ==
    /\ pressTimeouts # {}
    /\ \A t \in pressTimeouts : ~Due(t)
    /\ pressTimeouts' = {elapse(t, d) : t \in pressTimeouts}
    /\ UNCHANGED <<pressTimer, startPos, hasMoved, nextPressId>>
    /\ UNCHANGED <<galleryVars, sceneVars, placementVars, twinVars, recorderVars>>

PressNext ==
    \/ handleStart
    \/ \E far \in BOOLEAN : handleMove(far)
    \/ handleEnd
    \/ \E t \in pressTimeouts : pressTimeoutFires(t)
    \/ \E d \in Deltas : pressWait(d)

PressSpec == Init /\ [][PressNext]_vars

----------------------------------------------------------------------------
(* Canvas recording: App.toggleRecording / handleRecordStop and the effect of *)
(* the Recorder component, which runs after every render that changed         *)
(* isRecording.  What the browser supports and whether constructing or        *)
(* starting the MediaRecorder throws are inputs of the effect.                *)

\* const mimeTypes, in the order of preference
mimeTypes == <<"video/mp4;codecs=h264", "video/mp4", "video/webm;codecs=vp9", "video/webm">>

\* The first entry of mimeTypes that MediaRecorder.isTypeSupported accepts,
\* "" if there is none
selectedMimeType(supported) ==
    IF \E k \in 1..Len(mimeTypes) : mimeTypes[k] \in supported
      THEN mimeTypes[CHOOSE k \in 1..Len(mimeTypes) :
                        /\ mimeTypes[k] \in supported
                        /\ \A j \in 1..(k - 1) : mimeTypes[j] \notin supported]
      ELSE ""

\* What the browser supports.
Supports == SUBSET {mimeTypes[k] : k \in 1..Len(mimeTypes)}

\* Where the try block throws, if it does.
Throws == {"nowhere", "constructor", "start"}

\* A stop callback that leaves isRecording as it is.
handleRecordStop_ignored == isRecording

\* handleRecordStop: setIsRecording(false), the next isRecording
handleRecordStop == FALSE

\* recorder.stop() on the recorder with identifier id
stopRecorder(rs, id) ==
    {IF r.id = id THEN [r EXCEPT !.state = "inactive"] ELSE r : r \in rs}

\* mediaRecorderRef.current && mediaRecorderRef.current.state !== 'inactive'
refIsActive(rs) ==
    mediaRecorderRef # 0 /\ \E r \in rs : r.id = mediaRecorderRef /\ r.state # "inactive"

\* The cleanup the last run of the effect returned, if it returned one: it
\* stops the recorder the ref names unless that is inactive.
afterCleanup ==
    IF hasCleanup /\ refIsActive(recorders)
      THEN stopRecorder(recorders, mediaRecorderRef)
      ELSE recorders

\* toggleRecording: setIsRecording(prev => !prev).  React runs a pending
\* effect before it handles the next click.
toggleRecording ==
    /\ ~effectDue
    /\ isRecording' = ~isRecording
    /\ effectDue' = TRUE
    /\ UNCHANGED <<hasCleanup, mediaRecorderRef, recorders, lastOutcome>>
    /\ UNCHANGED <<galleryVars, sceneVars, placementVars, twinVars, pressVars>>

\* Recorder's effect after a render that changed isRecording: the cleanup of
\* the run before, then the body.
recorderEffect(supported, throws) ==
    /\ effectDue
    /\ LET rs == afterCleanup
           mime == selectedMimeType(supported)
           id == Cardinality(recorders) + 1
       IN  IF isRecording
             THEN IF mime = ""
                    THEN \* console.error; onStop(); return
                         /\ isRecording' = handleRecordStop
                         /\ hasCleanup' = FALSE
                         /\ recorders' = rs
                         /\ lastOutcome' = "noMimeType"
                         /\ UNCHANGED mediaRecorderRef
                    ELSE /\ throws # "nowhere" \/ Cardinality(recorders) < MaxRecorders
                         /\ throws = "start" => Cardinality(recorders) < MaxRecorders
                         /\ hasCleanup' = TRUE
                         /\ IF throws = "constructor"
                              THEN \* new MediaRecorder throws; catch: onStop()
                                   /\ isRecording' = handleRecordStop
                                   /\ recorders' = rs
                                   /\ lastOutcome' = "constructorThrew"
                                   /\ UNCHANGED mediaRecorderRef
                              ELSE IF throws = "start"
                                     THEN \* recorder.start() throws; catch: onStop()
                                          /\ isRecording' = handleRecordStop
                                          /\ recorders' = rs \cup
                                                {[id |-> id, state |-> "inactive",
                                                  mimeType |-> mime]}
                                          /\ lastOutcome' = "startThrew"
                                          /\ UNCHANGED mediaRecorderRef
                                     ELSE \* recorder.start(); the ref takes it
                                          /\ recorders' = rs \cup
                                                {[id |-> id, state |-> "recording",
                                                  mimeType |-> mime]}
                                          /\ mediaRecorderRef' = id
                                          /\ lastOutcome' = "started"
                                          /\ UNCHANGED isRecording
             ELSE \* stop recording
                  /\ hasCleanup' = TRUE
                  /\ IF refIsActive(rs)
                       THEN /\ recorders' = stopRecorder(rs, mediaRecorderRef)
                            /\ mediaRecorderRef' = 0
                       ELSE /\ recorders' = rs
                            /\ UNCHANGED mediaRecorderRef
                  /\ lastOutcome' = "stopped"
                  /\ UNCHANGED isRecording
    /\ effectDue' = (isRecording' # isRecording)
    /\ UNCHANGED <<galleryVars, sceneVars, placementVars, twinVars, pressVars>>

RecorderNext ==
    \/ toggleRecording
    \/ \E supported \in Supports, throws \in Throws : recorderEffect(supported, throws)

RecorderSpec == Init /\ [][RecorderNext]_vars

----------------------------------------------------------------------------
(* A photo frame in full: the pointer handlers, the whole useFrame callback   *)
(* (the scalars of PhotoFrameTick and the resting pose) and treeState, over a *)
(* list of photos that stays as uploaded.  Beside it runs the twin: the same  *)
(* frame in a run with the same rendered frames and treeState toggles in      *)
(* which no frame is ever clicked, so that the frame is never focused or      *)
(* flipped there.                                                             *)

\* One photo was uploaded (its frame is restingFrame), nothing else has happened.
FrameInit ==
    /\ photos = <<1>>
    /\ isClearing = FALSE
    /\ isProcessing = FALSE
    /\ upload = NoUpload
    /\ clearTimers = <<>>
    /\ revoked = {}
    /\ nextUrl = 1
    /\ focusedId = 0
    /\ isFlipped = [i \in Frames |-> FALSE]
    /\ clickTimeoutRef = [i \in Frames |-> 0]
    /\ timers = {}
    /\ progress = [i \in Frames |-> 0]
    /\ flipProgress = [i \in Frames |-> 0]
    /\ visibilityScale = [i \in Frames |-> 1000]
    /\ flipYaw = [i \in Frames |-> 0]
    /\ lastCancel = NoCancel
    /\ InitScene
    /\ InitPlacement
    /\ InitTwin
    /\ InitPress
    /\ InitRecorder

\* One animation frame: the useFrame callback of every photo frame, in both runs.
FrameTick(d) ==
    /\ PhotoFrameTick(d)
    /\ currentRestingPos' = nextRestingPos(d)
    /\ currentRestingRot' = nextRestingRot(d)
    /\ twinRestingPos' = lerp(twinRestingPos, destRestingPos, rate25(d))
    /\ twinRestingRot' = lerp(twinRestingRot, destRestingRot, rate25(d))
    /\ UNCHANGED <<treeState, foliageProgress, starProgress, starOpacity,
                   swarmOpacityProp, swarmOpacity, swarmVisible, currentPositions>>
    /\ UNCHANGED <<placementVars, pressVars, recorderVars>>

FrameNext ==
    \/ \E i \in Frames : handleClick(i)
    \/ \E i \in Frames : handleDoubleClick(i)
    \/ onPointerMissed
    \/ \E t \in timers : clickTimeoutFires(t)
    \/ \E d \in Deltas : FrameTick(d)
    \/ toggleTreeState

FrameSpec == FrameInit /\ [][FrameNext]_vars

\* The frame under the browser's scheduling: the render loop
\* (requestAnimationFrame) keeps rendering frames, and a timeout whose delay has
\* elapsed has its callback run.
FairFrameSpec ==
    /\ FrameSpec
    /\ WF_vars(\E d \in Deltas : FrameTick(d))
    /\ WF_vars(\E t \in timers : clickTimeoutFires(t))

----------------------------------------------------------------------------
(* utils.ts: the placement functions.  Lengths are in thousandths, ratios in  *)
(* ten-thousandths, angles in ten-thousandths of a full turn (2 * PI).  A     *)
(* point is kept in cylinder coordinates: y, the horizontal radius r and the  *)
(* polar angle theta, for the source's Vector3(r * cos(theta), y,             *)
(* r * sin(theta)).                                                           *)

\* const loops = 4
loops == 4

\* A spiral whose y runs from the top down.
getSpiralPoint_descending(index, total, height, radiusBase) ==
    LET yRatio == RoundDiv(index * 10000, total)
        theta  == yRatio * loops
    IN  [position  |-> [y     |-> RoundDiv(height, 2) - RoundDiv(yRatio * height, 10000),
                        r     |-> RoundDiv(radiusBase * (10000 - yRatio), 10000) + 1500,
                        theta |-> theta],
         rotationY |-> -theta]

\* getSpiralPoint(index, total, height, radiusBase)
getSpiralPoint(index, total, height, radiusBase) ==
    LET yRatio == RoundDiv(index * 10000, total)
        theta  == yRatio * loops
    IN  [position  |-> [y     |-> RoundDiv(yRatio * height, 10000) - RoundDiv(height, 2),
                        r     |-> RoundDiv(radiusBase * (10000 - yRatio), 10000) + 1500,
                        theta |-> theta],
         rotationY |-> -theta]

\* A cone point whose jittered radius is not clamped.
getTreePoint_unclamped(height, baseRadius, yRatio, random, rNoise) ==
    LET y == RoundDiv(yRatio * height, 10000)
        r == RoundDiv(baseRadius * (10000 - yRatio), 10000)
    IN  [y |-> y - RoundDiv(height, 2), r |-> r + rNoise, theta |-> random]

\* getTreePoint(height, baseRadius, yRatio), with its two random draws as
\* arguments: random for Math.random() of theta, rNoise for randFloatSpread(0.5).
getTreePoint(height, baseRadius, yRatio, random, rNoise) ==
    LET y == RoundDiv(yRatio * height, 10000)
        r == RoundDiv(baseRadius * (10000 - yRatio), 10000)
        finalR == Max(0, r + rNoise)
    IN  [y |-> y - RoundDiv(height, 2), r |-> finalR, theta |-> random]

\* Arguments the functions are called with: PhotoGallery's (12, 5.5) and
\* Foliage's (14, 5) among them.
Heights == {12000, 14000}

Radii == {5500, 5000}

\* yRatio in [0, 1]
Ratios == {0, 5000, 9700, 10000}

\* Math.random() in [0, 1)
Randoms == {0, 2500}

\* MathUtils.randFloatSpread(0.5), in [-0.25, 0.25]
Noises == {-250, -100, 0, 250}

\* A list of 1..MaxTotal photos is about to be placed.
InitSpiral ==
    /\ spiralArgs \in [total : 1..MaxTotal, height : Heights, radiusBase : Radii]
    /\ placed = <<>>
    /\ treePoint = NoPoint
    /\ ornament = NoOrnament

\* photos.map((item, index) => getSpiralPoint(index, photos.length, ...)):
\* the next index
placeNext ==
    /\ Len(placed) < spiralArgs.total
    /\ placed' = Append(placed, getSpiralPoint(Len(placed), spiralArgs.total,
                                               spiralArgs.height, spiralArgs.radiusBase))
    /\ UNCHANGED <<spiralArgs, treePoint, ornament>>
    /\ UNCHANGED <<galleryVars, sceneVars, twinVars, pressVars, recorderVars>>

\* One getTreePoint call
sampleTreePoint(height, baseRadius, yRatio, random, rNoise) ==
    /\ treePoint' = [called |-> TRUE, height |-> height, baseRadius |-> baseRadius,
                     yRatio |-> yRatio, rNoise |-> rNoise,
                     point |-> getTreePoint(height, baseRadius, yRatio, random, rNoise)]
    /\ UNCHANGED <<spiralArgs, placed, ornament>>
    /\ UNCHANGED <<galleryVars, sceneVars, twinVars, pressVars, recorderVars>>

PlacementNext ==
    \/ placeNext
    \/ \E height \in Heights, baseRadius \in Radii, yRatio \in Ratios,
          random \in Randoms, rNoise \in Noises :
            sampleTreePoint(height, baseRadius, yRatio, random, rNoise)

PlacementInit ==
    InitGallery /\ InitScene /\ InitSpiral /\ InitTwin /\ InitPress /\ InitRecorder

PlacementSpec == PlacementInit /\ [][PlacementNext]_vars

----------------------------------------------------------------------------
(* Ornaments: the generation of an instance's tree position (the body of the  *)
(* loop in useMemo), with the random draws as arguments.                      *)

Types == {"box", "ball", "light"}

\* const offset = type === 'box' ? 0.5 : (type === 'ball' ? 0.3 : 0.6)
offset(type) == IF type = "box" THEN 500 ELSE IF type = "ball" THEN 300 ELSE 600

\* The length of Vector3(x, 0, z).normalize() for a vector of length r:
\* normalize() divides by (length() || 1), which leaves the zero vector as it is.
normalizedLength(r) == IF r = 0 THEN 0 ELSE 1000

\* tPos.add(direction.multiplyScalar(offset)): direction has the polar angle
\* of tPos and no y component, so the sum moves tPos along its own radius.
pushOut(tPos, type) ==
    [tPos EXCEPT !.r = @ + RoundDiv(normalizedLength(tPos.r) * offset(type), 1000)]

\* yBias = Math.pow(Math.random(), 1.8), in [0, 1)
Biases == {0, 2500, 5000, 9600, 9700}

\* One pass of the loop: getTreePoint(14, 5, yBias), pushed out by the offset
generateTarget(type, yBias, random, rNoise) ==
    /\ LET tPos == getTreePoint(14000, 5000, yBias, random, rNoise)
       IN  ornament' = [generated |-> TRUE, type |-> type, yBias |-> yBias,
                        rNoise |-> rNoise, conePoint |-> tPos,
                        target |-> pushOut(tPos, type)]
    /\ UNCHANGED <<spiralArgs, placed, treePoint>>
    /\ UNCHANGED <<galleryVars, sceneVars, twinVars, pressVars, recorderVars>>

OrnamentNext ==
    \E type \in Types, yBias \in Biases, random \in Randoms, rNoise \in Noises :
        generateTarget(type, yBias, random, rNoise)

OrnamentSpec == Init /\ [][OrnamentNext]_vars

----------------------------------------------------------------------------
(* Claims *)

\* C1: focus is exclusive.  The gallery holds one focused identifier; in every
\* reachable state where frame A is focused and a click can reach another frame
\* B, that click leaves B focused and A not focused.
C1_FocusExclusive ==
    \A a, b \in Frames :
        (isFocused(a) /\ a # b /\ Mounted(b) /\ ~isProcessing /\ ~isClearing)
          => /\ ENABLED (handleClick(b) /\ focusedId' = b /\ focusedId' # a)
             /\ ~ ENABLED (handleClick(b) /\ ~(focusedId' = b /\ focusedId' # a))

\* Frame 2 is focused while frame 1 still shows the progress it gained when it
\* was the focused one: focus went from frame 1 to frame 2.
C1_Witness == focusedId = 2 /\ Mounted(2) /\ progress[1] > 0

\* What a click on the focused frame i must do: keep the focus and arm one
\* timeout of 250 ms whose handle the frame keeps.
C2_Armed(i) ==
    /\ focusedId' = i
    /\ \E t \in timers' \ timers :
          /\ t.owner = i /\ t.delay = 250 /\ t.elapsed = 0
          /\ clickTimeoutRef'[i] = t.id
          /\ timers' = timers \cup {t}

\* C2: a click on the focused frame does not blur it; it arms one timeout of
\* 250 ms whose handle the frame keeps; while no clear is in progress the
\* passing of time alone (a rendered frame) leaves the focus as it is; and the
\* blur of that timeout can run only when 250 ms have elapsed, and then sets
\* the focused identifier to none.
C2_DeferredBlur ==
    /\ \A i \in Frames :
         (Mounted(i) /\ ~isProcessing /\ isFocused(i) /\ ~isClearing
            /\ clickTimeoutRef[i] = 0)
           => /\ ENABLED (handleClick(i) /\ C2_Armed(i))
              /\ ~ ENABLED (handleClick(i) /\ ~C2_Armed(i))
    /\ ~isClearing => ~ ENABLED (\E d \in Deltas : Tick(d) /\ focusedId' # focusedId)
    /\ \A t \in timers :
         /\ t.elapsed < 250 => ~ ENABLED clickTimeoutFires(t)
         /\ t.elapsed >= 250 => /\ ENABLED (clickTimeoutFires(t) /\ focusedId' = 0)
                                /\ ~ ENABLED (clickTimeoutFires(t) /\ focusedId' # 0)

\* The 250 ms of a deferred blur have elapsed and its frame is still focused:
\* the blur did not run before.
C2_Witness ==
    \E t \in timers : t.elapsed >= 250 /\ isFocused(t.owner)
                      /\ clickTimeoutRef[t.owner] = t.id

\* What a double-click on the focused frame i with a pending blur must do.
C3_Cancelled(i) ==
    /\ \A t \in timers' : t.owner # i
    /\ clickTimeoutRef'[i] = 0
    /\ isFlipped'[i] = ~isFlipped[i]
    /\ \A j \in Frames \ {i} : isFlipped'[j] = isFlipped[j]
    /\ focusedId' = i

\* C3: a double-click on the focused frame while its deferred blur is pending
\* cancels that timeout (no timeout of the frame is left to fire), toggles
\* isFlipped once and leaves the frame focused.
C3_DoubleClickCancels ==
    \A i \in Frames :
        (Mounted(i) /\ ~isProcessing /\ isFocused(i) /\ clickTimeoutRef[i] # 0)
          => /\ ENABLED (handleDoubleClick(i) /\ C3_Cancelled(i))
             /\ ~ ENABLED (handleDoubleClick(i) /\ ~C3_Cancelled(i))

\* A focused frame that a double-click has just flipped (no frame rendered
\* since: flipProgress has not moved) and that has no blur pending.
C3_Witness ==
    \E i \in Frames : /\ isFocused(i) /\ isFlipped[i] /\ flipProgress[i] = 0
                      /\ clickTimeoutRef[i] = 0
                      /\ \A t \in timers : t.owner # i

\* C4: every pending deferred blur belongs to a mounted frame that holds its
\* handle: a frame that unmounts takes its timeout with it, so the callback
\* cannot run for a destroyed frame.
C4_NoTimeoutOfDestroyedFrame ==
    \A t \in timers : Mounted(t.owner) /\ clickTimeoutRef[t.owner] = t.id

\* The last step unmounted a frame whose deferred blur was pending.
C4_Witness == lastCancel.by = "unmount" /\ ~Mounted(lastCancel.frame)

\* What a click on the unfocused frame i must do.
C5_Focused(i) ==
    focusedId' = i /\ timers' = timers /\ clickTimeoutRef' = clickTimeoutRef

\* C5: a click on an unfocused frame while no clear is in progress sets the
\* focused identifier to that frame in the same step and arms no timeout.
C5_ImmediateFocus ==
    \A i \in Frames :
        (Mounted(i) /\ ~isProcessing /\ ~isFocused(i) /\ ~isClearing)
          => /\ ENABLED (handleClick(i) /\ C5_Focused(i))
             /\ ~ ENABLED (handleClick(i) /\ ~C5_Focused(i))

\* A frame is focused that no rendered frame has seen focused yet, and no
\* timeout is pending.
C5_Witness ==
    \E i \in Frames : isFocused(i) /\ Mounted(i) /\ progress[i] = 0 /\ timers = {}

\* What a background click must do.
C6_Blurred ==
    focusedId' = 0 /\ UNCHANGED <<isFlipped, clickTimeoutRef, timers>>

\* C6: a background click blurs the focused frame if there is one, and leaves
\* the focused identifier at none when nothing is focused.
C6_BackgroundClickBlurs ==
    (Len(photos) > 0 /\ ~isProcessing /\ (focusedId = 0 \/ Mounted(focusedId)))
      => /\ ENABLED (onPointerMissed /\ C6_Blurred)
         /\ ~ ENABLED (onPointerMissed /\ ~C6_Blurred)

\* Nothing is focused, nothing is clearing and no timeout is pending or was
\* cancelled, while a frame is fully zoomed in: it lost focus to a click.
C6_Witness ==
    /\ focusedId = 0 /\ ~isClearing /\ ~isProcessing /\ timers = {}
    /\ \E i \in Frames : Mounted(i) /\ progress[i] = 1000

\* C7: a double-click on a frame that is not focused changes neither isFlipped
\* nor the focused identifier; isFlipped becomes true only by a double-click on
\* the frame that is focused.
C7_FlipOnlyWhenFocused ==
    [][/\ \A i \in Frames :
            (~isFocused(i) /\ handleDoubleClick(i))
              => (isFlipped' = isFlipped /\ focusedId' = focusedId)
       /\ \A i \in Frames :
            (~isFlipped[i] /\ isFlipped'[i])
              => (isFocused(i) /\ handleDoubleClick(i))]_vars

\* A frame that is not focused holds a pending blur (it was focused when it
\* was clicked), beside a flipped focused frame: a double-click on the first
\* cancels its timeout and flips nothing.
C7_Witness ==
    \E i, j \in Frames : /\ i # j /\ isFocused(j) /\ isFlipped[j]
                         /\ ~isFlipped[i] /\ clickTimeoutRef[i] # 0

\* C8: while isClearing is set a click on a frame requests no focus and arms
\* no timeout, and no step makes a frame focused.
C8_ClickSuspendedWhileClearing ==
    [][/\ \A i \in Frames :
            (isClearing /\ handleClick(i))
              => UNCHANGED <<focusedId, timers, clickTimeoutRef>>
       /\ isClearing => (focusedId' = focusedId \/ focusedId' = 0)]_vars

\* A clear is in progress, its animation has run, frames are there to click
\* and none is focused.
C8_Witness ==
    /\ isClearing /\ ~isProcessing /\ focusedId = 0
    /\ \E i \in Frames : Mounted(i) /\ visibilityScale[i] < 1000

\* C9: a rendered frame with isClearing set blurs the focused frame: after it
\* the focused identifier is none.
C9_ClearingTickBlurs ==
    [][\A d \in Deltas, i \in Frames :
         (isClearing /\ isFocused(i) /\ Mounted(i) /\ Tick(d)) => focusedId' = 0]_vars

\* The first frame rendered since the clear began (visibilityScale left 1 by
\* one step) found the frame focused (its progress rose) and blurred it.
C9_Witness ==
    /\ isClearing /\ focusedId = 0
    /\ \E i \in Frames : /\ Mounted(i) /\ progress[i] >= 750
                         /\ visibilityScale[i] = lerp(1000, 0, 1500)

\* C10: when the clearPhotos timeout empties the list (and revokes the URLs),
\* every mounted frame's visibilityScale is within 1e-3 of 0.
C10_ClearedOnlyWhenInvisible ==
    [][\A k \in 1..Len(clearTimers) :
         clearTimeoutFires(k)
           => \A i \in Frames : Mounted(i) => Abs(visibilityScale[i]) <= 1]_vars

\* C11: in every reachable state the focused identifier is none or names a
\* frame of the current list; with an empty list nothing is focused (the
\* "something is focused" flag, !!focusedId, is false).
C11_FocusedIsInList ==
    /\ focusedId = 0 \/ Mounted(focusedId)
    /\ Len(photos) = 0 => focusedId = 0

C13_KeepsState(k) ==
    /\ clickTimeoutRef'[k] = clickTimeoutRef[k]
    /\ isFlipped'[k] = isFlipped[k]
    /\ progress'[k] = progress[k]
    /\ flipProgress'[k] = flipProgress[k]
    /\ visibilityScale'[k] = visibilityScale[k]

\* C13: identifiers are stable and unique.  In a step that makes the list
\* longer, every photo that was in the list is still the entity with the same
\* identifier and its frame keeps its state; the identifiers (and the photos)
\* of every list the program sets are pairwise distinct (the initial list is
\* empty); and the clearPhotos timeout leaves the list empty.
C13_IdentifiersStable ==
    [][/\ Len(photos') > Len(photos)
            => \A k \in 1..Len(photos) :
                  /\ photoObjects'[k] = photoObjects[k]
                  /\ C13_KeepsState(photoObjects[k].id)
       /\ photos' # photos
            => \A j, k \in 1..Len(photos') :
                  j # k => /\ photoObjects'[j].id # photoObjects'[k].id
                           /\ photoObjects'[j].url # photoObjects'[k].url
       /\ \A k \in 1..Len(clearTimers) :
            clearTimeoutFires(k) => (photos' = <<>> /\ \A i \in Frames : ~Mounted(i)')]_vars

\* An upload is about to append to a list whose one photo is focused, zoomed
\* in and flipped: the frame state an append has to keep.
C13_Witness ==
    /\ upload.active /\ upload.newPhotos = photos /\ Len(photos) = 1
    /\ nextUrl < MaxUrls
    /\ focusedId = 1 /\ progress[1] = 1000 /\ isFlipped[1] /\ flipProgress[1] = 1000

\* x lies in [0, 1].
InUnit(x) == 0 <= x /\ x <= 1000

\* C14: after any sequence of frames and treeState toggles every progress
\* scalar (Foliage's progress, Star's progress, and each mounted photo frame's
\* progress, flipProgress and visibilityScale) lies in [0, 1].
C14_ScalarsInUnitInterval ==
    /\ InUnit(foliageProgress)
    /\ InUnit(starProgress)
    /\ \A i \in Frames :
         Mounted(i) => /\ InUnit(progress[i])
                       /\ InUnit(flipProgress[i])
                       /\ InUnit(visibilityScale[i])

\* From x the value moved to y without moving away from the target and
\* without passing it.
Toward(x, y, target) ==
    IF x <= target THEN x <= y /\ y <= target ELSE target <= y /\ y <= x

\* C15: in a frame (the frames of a behaviour all have the same delta) each
\* damped value (Foliage's progress, the frame's resting position, a mounted
\* frame's flipProgress) moves toward its target and does not pass it.  This
\* is the part of the claim a single step can break; that the value comes
\* within 1e-3 of the target rests on it.
C15_DampedMonotone ==
    [][/\ \A d \in Deltas :
            SceneTick(d)
              => /\ Toward(foliageProgress, foliageProgress', targetVal)
                 /\ Toward(currentRestingPos, currentRestingPos', destRestingPos)
       /\ \A d \in Deltas :
            Tick(d)
              => \A i \in Frames :
                    Mounted(i) => Toward(flipProgress[i], flipProgress'[i],
                                         IF isFlipped[i] THEN 1000 ELSE 0)]_vars

\* C18: after every frame the swarm's opacity is the opacity Star's material
\* has after that frame (Star's smoothed progress), and the swarm is visible
\* exactly when that value exceeds 0.01.
C18_SwarmFollowsStar ==
    [][\A d \in Deltas :
         SceneTick(d) => /\ swarmOpacity' = starOpacity'
                         /\ swarmVisible' = (starOpacity' > 10)]_vars

\* Every point placed so far faces the negated polar angle of its position.
FacesOutward ==
    \A k \in 1..Len(placed) : placed[k].rotationY = -placed[k].position.theta

C17_ConeBounds ==
    treePoint.called =>
        LET H == treePoint.height
            unjittered == RoundDiv(treePoint.baseRadius * (10000 - treePoint.yRatio), 10000)
        IN  /\ -RoundDiv(H, 2) <= treePoint.point.y
            /\ treePoint.point.y <= RoundDiv(H, 2)
            /\ treePoint.point.r >= 0
            /\ Abs(treePoint.point.r - unjittered) <= 250

\* A cone point near the tip whose jitter alone would have made the radius
\* negative: the clamp acted.
C17_Witness ==
    /\ treePoint.called /\ treePoint.point.r = 0
    /\ treePoint.yRatio < 10000 /\ treePoint.baseRadius > 0 /\ treePoint.rNoise < 0

\* C19: the deferred blur a click on frame A armed does not un-focus another
\* frame: when it fires while a frame other than A is focused, that frame is
\* still focused afterwards.
C19_BlurOnlyOwnFrame ==
    [][\A t \in timers :
         (clickTimeoutFires(t) /\ focusedId # 0 /\ focusedId # t.owner)
           => focusedId' = focusedId]_vars

\* C20: the photo list holds no object URL that was revoked.
C20_NoRevokedUrlListed == Urls(photos) \cap revoked = {}

\* zoomSpeed = 1.5: delta * zoomSpeed, in thousandths
C21_Step(d) == RoundDiv(d * 3, 2)

\* C21: in every rendered frame the focus progress of a mounted photo frame
\* rises by 1.5 * delta while the frame is focused and falls by 1.5 * delta
\* while it is not, clamped to [0, 1]; when it is 0 after the step on an
\* unfocused frame that is flipped, isFlipped becomes false, and a frame that
\* is not flipped is not flipped by the step; so a flipped frame that is not
\* focused comes to progress 0 with isFlipped false, unless it is focused
\* again or unmounted before.
C21_FocusProgress ==
    /\ [][\A d \in Deltas :
             PhotoFrameTick(d) =>
               \A i \in Frames :
                 Mounted(i) =>
                   /\ isFocused(i)
                        => progress'[i] = Min(1000, progress[i] + C21_Step(d))
                   /\ ~isFocused(i)
                        => /\ progress'[i] = Max(0, progress[i] - C21_Step(d))
                           /\ (progress'[i] = 0 /\ isFlipped[i]) => ~isFlipped'[i]
                   /\ ~isFlipped[i] => ~isFlipped'[i]]_vars
    /\ \A i \in Frames :
         (Mounted(i) /\ isFlipped[i] /\ ~isFocused(i))
           ~> \/ (progress[i] = 0 /\ ~isFlipped[i] /\ ~isFocused(i))
              \/ isFocused(i)
              \/ ~Mounted(i)

\* A frame that was flipped while focused and then blurred has run down to
\* progress 0 and lost its flip in that frame: flipProgress, which the same
\* frame computed from the isFlipped of before, is still 1.
C21_Witness ==
    \E i \in Frames : /\ Mounted(i) /\ ~isFocused(i) /\ progress[i] = 0
                      /\ ~isFlipped[i] /\ flipProgress[i] = 1000

\* C22 as stated: the flip yaw a rendered frame composes onto the active
\* orientation is flipProgress * PI for the flipProgress held before that
\* frame's flip-progress update.
C22_YawFromProgressBefore ==
    [][\A d \in Deltas :
         Tick(d) => \A i \in Frames :
                       Mounted(i) => flipYaw'[i] = flipAngle(flipProgress[i])]_vars

\* C22, amended: the flip-progress update runs inside the active-pose step,
\* before the yaw is composed: the flip yaw of a rendered frame is
\* flipProgress * PI for the flipProgress that frame has just computed (the
\* lerp of the value before toward 1 if isFlipped, else 0, by 2 * delta), and
\* no yaw is composed when that value does not exceed 0.001.
C22_YawFromProgressAfter ==
    [][\A d \in Deltas :
         Tick(d) => \A i \in Frames :
                       Mounted(i) =>
                         /\ flipProgress'[i] =
                              lerp(flipProgress[i], IF isFlipped[i] THEN 1000 ELSE 0, d * 2)
                         /\ flipProgress'[i] > 1
                              => flipYaw'[i] = RoundDiv(flipProgress'[i] * PI, 1000)
                         /\ flipProgress'[i] <= 1 => flipYaw'[i] = 0]_vars

\* A flipped frame has rendered its first frame since the double-click: its
\* yaw is already that of the new flipProgress.
C22_Witness ==
    \E i \in Frames : /\ Mounted(i) /\ isFlipped[i] /\ isFocused(i)
                      /\ flipProgress[i] = 1000 /\ flipYaw[i] = PI /\ progress[i] < 1000

\* C23: the smoothed resting position and orientation of a frame are stepped
\* toward the resting target of the current treeState in every rendered frame,
\* focused or not: after the same rendered frames and treeState toggles they
\* are what they are in the run where no frame was ever clicked.
C23_RestingPoseIgnoresFocus ==
    /\ currentRestingPos = twinRestingPos
    /\ currentRestingRot = twinRestingRot

\* The followed frame is focused, zoomed in and flipped while its resting pose
\* is on its way from the chaos point to the spiral position.
C23_Witness ==
    /\ isFocused(restingFrame) /\ progress[restingFrame] = 1000 /\ isFlipped[restingFrame]
    /\ treeState = "FORMED"
    /\ currentRestingPos # chaosPos /\ currentRestingPos # position
    /\ currentRestingRot # chaosRot /\ currentRestingRot # formedRot

\* delta * speed with speed = 1 / 1.5, in thousandths
C24_Step(d) == RoundDiv(d * 2, 3)

\* C24: in every rendered frame Star's progress moves by delta / 1.5 toward 1
\* when treeState is FORMED and toward 0 when it is CHAOS, clamped to [0, 1];
\* at its target it stays there; and while treeState does not change, the
\* progress comes to equal the target.
C24_StarProgressLinear ==
    /\ [][\A d \in Deltas :
             SceneTick(d) =>
               /\ (treeState = "FORMED" /\ starProgress < 1000)
                    => starProgress' = Min(1000, starProgress + C24_Step(d))
               /\ (treeState = "CHAOS" /\ starProgress > 0)
                    => starProgress' = Max(0, starProgress - C24_Step(d))
               /\ (treeState = "FORMED" /\ starProgress = 1000) => starProgress' = 1000
               /\ (treeState = "CHAOS" /\ starProgress = 0) => starProgress' = 0]_vars
    /\ (treeState = "FORMED") ~> (treeState = "CHAOS" \/ starProgress = 1000)
    /\ (treeState = "CHAOS") ~> (treeState = "FORMED" \/ starProgress = 0)

\* The star has gathered in full, and its last step was cut short by the
\* clamp: the progress one frame before was less than a step below 1.
C24_Witness ==
    /\ treeState = "FORMED" /\ starProgress = 1000 /\ starOpacity = 1000
    /\ \E d \in Deltas : 1000 % C24_Step(d) # 0

\* C25: after any sequence of rendered frames and treeState toggles every
\* ornament instance's current position lies on the segment between its chaos
\* position and its target position.
C25_OrnamentOnSegment ==
    \A i \in Instances :
        /\ Min(chaosData[i], targetData[i]) <= currentPositions[i]
        /\ currentPositions[i] <= Max(chaosData[i], targetData[i])

\* C26: every ornament's tree position is its cone point moved outward along
\* its own radius by the offset of its type (box 0.5, ball 0.3, light 0.6):
\* same height, same polar angle, and a distance from the axis that exceeds
\* the cone point's radius by that offset, for every cone point, those with a
\* radius clamped to 0 among them.
C26_PushedOutByOffset ==
    ornament.generated =>
        /\ ornament.target.y = ornament.conePoint.y
        /\ ornament.target.theta = ornament.conePoint.theta
        /\ ornament.target.r - ornament.conePoint.r =
             (CASE ornament.type = "box" -> 500
                [] ornament.type = "ball" -> 300
                [] ornament.type = "light" -> 600)

\* The pending deferred blurs of frame i.
C27_Pending(i) == {t \in timers : t.owner = i}

\* C27: a photo frame has at most one deferred blur pending at any time, and
\* it holds a handle only while that timeout is pending: the handle is none
\* once the timeout has fired or a double-click has cancelled it.
C27_AtMostOnePendingBlur ==
    \A i \in Frames :
        /\ Cardinality(C27_Pending(i)) <= 1
        /\ clickTimeoutRef[i] # 0 => \E t \in C27_Pending(i) : t.id = clickTimeoutRef[i]

\* A frame that a double-click flipped (cancelling its first deferred blur)
\* was clicked again: it is focused with one deferred blur pending, which a
\* further click could double.
C27_Witness ==
    \E i \in Frames : /\ Mounted(i) /\ isFocused(i) /\ isFlipped[i]
                      /\ ~isClearing /\ ~isProcessing
                      /\ clickTimeoutRef[i] # 0 /\ Cardinality(C27_Pending(i)) = 1

\* C28: the photo list never holds more than MAX_PHOTOS entries, whatever
\* uploads (of any number of files) and clears have run and however they
\* interleave; nor does the list an upload is building from.
C28_ListWithinCap ==
    /\ Len(photos) <= MAX_PHOTOS
    /\ upload.active => Len(upload.newPhotos) < MAX_PHOTOS

\* The list is full after an upload that a clear overtook: the clear's
\* timeout revoked the URLs of the list the upload then set again, extended.
C28_Witness ==
    /\ Len(photos) = MAX_PHOTOS /\ ~upload.active
    /\ Urls(photos) \cap revoked # {}

\* C29: treeState toggles only when the timeout of the press in progress
\* fires: 1800 ms after its start, with no movement beyond 10 px and no
\* release since.  After a press has ended no timeout of that or an earlier
\* press start toggles treeState, also when several press starts came before
\* the press end.
C29_ToggleOnlyWhileHeld ==
    [][treeState' # treeState
         => \E t \in pressTimeouts :
               /\ pressTimeoutFires(t)
               /\ t.elapsed >= 1800
               /\ ~t.ended
               /\ ~hasMoved]_vars

\* A recorder is recording.
C30_SomeActive(rs) == \E r \in rs : r.state # "inactive"

\* C30: when a run of the effect with isRecording set cannot start the
\* recording (no supported MIME type, or the constructor or start() throws),
\* isRecording is false after it and no recorder is active; the stop branch
\* that this triggers starts nothing; and a recording runs only while
\* isRecording is set or its effect is still due.
C30_FailedStartStops ==
    /\ [][\A supported \in Supports, throws \in Throws :
             (recorderEffect(supported, throws) /\ isRecording
                /\ (selectedMimeType(supported) = "" \/ throws # "nowhere"))
               => (~isRecording' /\ ~C30_SomeActive(recorders'))]_vars
    /\ []((~isRecording /\ ~effectDue) => ~C30_SomeActive(recorders))

\* start() threw: the recorder that was constructed is inactive and the ref
\* does not hold it, isRecording is false again, and the effect of that change
\* is due.
C30_Witness ==
    /\ lastOutcome = "startThrew" /\ ~isRecording /\ effectDue
    /\ \E r \in recorders : r.state = "inactive" /\ r.id # mediaRecorderRef

====
